---- MODULE Spec2Model ----
(***************************************************************************)
(* Model of the profiler: the collector (src/src/main.rs), where a         *)
(* background reader thread groups the sampler's lines and hands them to   *)
(* the foreground driver loop over a channel, and the analyzer             *)
(* (src/src/report.rs), which parses the log and aggregates it.            *)
(*                                                                         *)
(* Three specifications share the module:                                  *)
(*   Spec        the collector run (process and the tail of main)          *)
(*   SpecReport  the analyzer on a bounded family of logs                  *)
(*   SpecSort    the CPU key collection and ordering of get_report         *)
(***************************************************************************)
EXTENDS Integers, Sequences, FiniteSets, TLC

VARIABLES
    \* ---- collector: build and command line configuration
    platform,     \* "ubuntu" | "android" (cargo feature)
    cores,        \* num_cpus::get_physical()
    duration,     \* seconds, args[2]
    interval,     \* seconds, args[3]
    \* ---- collector: the sampler's output stream as the reader sees it
    stream,       \* "open" | "eof"
    emitted,      \* lines the sampler has produced and the reader has read
    reads,        \* read_line calls made so far
    \* ---- collector: background reader thread
    bg_pc,        \* "header" | "loop" | "send" | "ended" | "panicked"
    hdr,          \* header lines read so far
    line,         \* String accumulator: the emission numbers of its lines
    bg_i,         \* line counter i of the reader loop
    chan,         \* mpsc channel: groups sent and not yet received
    \* ---- collector: foreground driver (process, then main)
    drv_pc,       \* "elapsed" | "proc_start" | "sleep" | "recv" | "recv_wait"
                  \* | "proc_end" | "write" | "check" | "done" | "exited"
                  \* | "aborted"
    now,          \* time since start_time, in ticks
    elapsed,      \* start_time.elapsed() of the current iteration
    proc_start,   \* tick of the pre-sleep /proc/stat read, None before
    proc_end,     \* tick of the post-sleep /proc/stat read, None before
    perf_entry,   \* group received in this iteration, NoGroup before
    wr,           \* writes of the current entry already done (0..5)
    log,          \* the output file: sequence of chunks written
    abort,        \* which unwrap() panicked in the main thread
    bg_end_early, \* history: the reader ended while the driver still had a
                  \* receive ahead of it
    \* ---- analyzer
    an_pc,        \* "start" | "reported" | "averaged" | "panicked"
    an_platform,  \* cargo feature of the analyzer build
    xml,          \* the parsed Log: sequence of LogEntry
    report,       \* Report built by get_report
    avg_load,     \* cpu key -> get_average_proc_load
    avg_cycles,   \* cpu key -> get_average_cpu_cycles
    \* ---- key ordering
    ks_pc,        \* "sets" | "vecs" | "sorted"
    proc_set,     \* HashSet proc_cpus
    perf_set,     \* HashSet perf_cpus
    proc_vec,     \* Vec proc_cpus
    perf_vec      \* Vec perf_cpus

collector_vars == <<platform, cores, duration, interval, stream, emitted,
                    reads, bg_pc, hdr, line, bg_i, chan, drv_pc, now,
                    elapsed, proc_start, proc_end, perf_entry, wr, log,
                    abort, bg_end_early>>
analyzer_vars == <<an_pc, an_platform, xml, report, avg_load, avg_cycles>>
sort_vars == <<ks_pc, proc_set, perf_set, proc_vec, perf_vec>>
vars == <<collector_vars, analyzer_vars, sort_vars>>

\* What each component leaves alone.
other_c == <<analyzer_vars, sort_vars>>
other_a == <<collector_vars, sort_vars>>
other_s == <<collector_vars, analyzer_vars>>

----------------------------------------------------------------------------
(* Bounds of the model *)

MaxCores == 1
MaxDuration == 1
MaxInterval == 1
MaxReads == 6
MaxLogEntries == 3
TicksPerMilli == 2
MaxXmlEntries == 3

(* Program constants *)

MillisPerSec == 1000

TicksPerSec == MillisPerSec * TicksPerMilli

Platforms == {"ubuntu", "android"}

PERF_HEADER_LINES(p) == IF p = "ubuntu" THEN 1 ELSE 0

PERF_ENTRY_ADDITIONAL_LINES(p) == IF p = "ubuntu" THEN 0 ELSE 2

\* cores * 2 + PERF_ENTRY_ADDITIONAL_LINES
GroupSize(p, c) == c * 2 + PERF_ENTRY_ADDITIONAL_LINES(p)

\* Time that passes beyond the requested one in a sleep or a blocked recv.
Delays == {0, 1, TicksPerSec}

None == -1
NoGroup == <<None>>

Last(s) == s[Len(s)]

Range(q) == {q[k] : k \in 1..Len(q)}

Chunk(k, t, b) == [kind |-> k, time |-> t, body |-> b]

\* Duration::as_millis
as_millis(d) == d \div TicksPerMilli

\* Duration::from_secs, in ticks
from_secs(s) == s * TicksPerSec

----------------------------------------------------------------------------
(* Collector: initial state.  main has created the output file, written    *)
(* the <log ...> line and spawned the sampler; process has created the     *)
(* channel and spawned the reader thread.                                  *)

CollectorInit ==
    /\ platform \in Platforms
    /\ cores \in 1..MaxCores
    /\ duration \in 0..MaxDuration
    /\ interval \in 0..MaxInterval
    /\ stream = "open"
    /\ emitted = 0
    /\ reads = 0
    /\ bg_pc = "header"
    /\ hdr = 0
    /\ line = <<>>
    /\ bg_i = 0
    /\ chan = <<>>
    /\ drv_pc = "elapsed"
    /\ now = 0
    /\ elapsed = None
    /\ proc_start = None
    /\ proc_end = None
    /\ perf_entry = NoGroup
    /\ wr = 0
    /\ log = <<Chunk("log-open", None, <<duration, interval>>)>>
    /\ abort = "none"
    /\ bg_end_early = FALSE

CollectorIdle ==
    /\ platform = "ubuntu" /\ cores = 1 /\ duration = 0 /\ interval = 0
    /\ stream = "open" /\ emitted = 0 /\ reads = 0
    /\ bg_pc = "ended" /\ hdr = 0 /\ line = <<>> /\ bg_i = 0 /\ chan = <<>>
    /\ drv_pc = "exited" /\ now = 0 /\ elapsed = None
    /\ proc_start = None /\ proc_end = None /\ perf_entry = NoGroup
    /\ wr = 0 /\ log = <<>> /\ abort = "none" /\ bg_end_early = FALSE

\* The process is alive: main has neither returned nor panicked.
ProcessAlive == drv_pc \notin {"exited", "aborted"}

\* perf_rx is dropped when process() returns or unwinds.
RxAlive == drv_pc \notin {"done", "exited", "aborted"}

\* perf_tx is dropped when the reader thread's closure ends or unwinds.
TxAlive == bg_pc \notin {"ended", "panicked"}

\* The driver still has a receive ahead of it: it is before the recv of the
\* current iteration, or the current iteration is not the last one.
DriverNeedsGroup ==
    \/ drv_pc \in {"elapsed", "proc_start", "sleep", "recv", "recv_wait"}
    \/ /\ drv_pc \in {"proc_end", "write", "check"}
       /\ elapsed < from_secs(duration)

----------------------------------------------------------------------------
(* Background reader thread, main.rs 60-83 *)

\* One reader.read_line(&mut line): its outcomes and what each appends.
\*   "line"  Ok(n > 0): the sampler's next line is appended
\*   "eof"   Ok(0): end of stream, nothing is appended
\*   "err"   Err(_)
ReadOutcomes == IF stream = "open" THEN {"line", "eof", "err"} ELSE {"eof"}

ReadLine(outcome) ==
    /\ reads < MaxReads
    /\ outcome \in ReadOutcomes
    /\ reads' = reads + 1
    /\ IF outcome = "line"
       THEN /\ emitted' = emitted + 1
            /\ line' = Append(line, emitted + 1)
            /\ stream' = stream
       ELSE /\ emitted' = emitted
            /\ line' = line
            /\ stream' = IF outcome = "eof" THEN "eof" ELSE stream

BgEnd(pc) ==
    /\ bg_pc' = pc
    /\ bg_end_early' = (bg_end_early \/ DriverNeedsGroup)

\* for _ in 0..PERF_HEADER_LINES { reader.read_line(&mut line).unwrap(); }
BgHeader ==
    /\ ProcessAlive
    /\ bg_pc = "header"
    /\ hdr < PERF_HEADER_LINES(platform)
    /\ \E outcome \in ReadOutcomes :
         /\ ReadLine(outcome)
         /\ IF outcome = "err"
            THEN /\ BgEnd("panicked")
                 /\ hdr' = hdr
            ELSE /\ bg_pc' = bg_pc
                 /\ hdr' = hdr + 1
                 /\ bg_end_early' = bg_end_early
    /\ UNCHANGED <<other_c, platform, cores, duration, interval, bg_i, chan, drv_pc,
                   now, elapsed, proc_start, proc_end, perf_entry, wr, log,
                   abort>>

\* line.clear(); let cores = num_cpus::get_physical(); let mut i = 0;
BgStart ==
    /\ ProcessAlive
    /\ bg_pc = "header"
    /\ hdr = PERF_HEADER_LINES(platform)
    /\ line' = <<>>
    /\ bg_i' = 0
    /\ bg_pc' = "loop"
    /\ UNCHANGED <<other_c, platform, cores, duration, interval, stream, emitted,
                   reads, hdr, chan, drv_pc, now, elapsed, proc_start,
                   proc_end, perf_entry, wr, log, abort, bg_end_early>>

\* if let Ok(_) = reader.read_line(&mut line) { i += 1; if i % n == 0 ... }
\* else { break; }
BgRead ==
    /\ ProcessAlive
    /\ bg_pc = "loop"
    /\ \E outcome \in ReadOutcomes :
         /\ ReadLine(outcome)
         /\ IF outcome = "err"
            THEN /\ BgEnd("ended")
                 /\ bg_i' = bg_i
            ELSE /\ bg_i' = bg_i + 1
                 /\ bg_pc' = IF (bg_i + 1) % GroupSize(platform, cores) = 0
                             THEN "send" ELSE "loop"
                 /\ bg_end_early' = bg_end_early
    /\ UNCHANGED <<other_c, platform, cores, duration, interval, hdr, chan, drv_pc,
                   now, elapsed, proc_start, proc_end, perf_entry, wr, log,
                   abort>>

\* What an mpsc::channel() send does to the queue: it appends, whatever the
\* queue already holds (the channel is asynchronous and unbounded).
ChannelSend(q, g) == Append(q, g)

\* perf_tx.send(line.clone()).unwrap(); line.clear();
BgSend ==
    /\ ProcessAlive
    /\ bg_pc = "send"
    /\ IF RxAlive
       THEN /\ chan' = ChannelSend(chan, line)
            /\ line' = <<>>
            /\ bg_pc' = "loop"
            /\ bg_end_early' = bg_end_early
       ELSE /\ BgEnd("panicked")
            /\ UNCHANGED <<chan, line>>
    /\ UNCHANGED <<other_c, platform, cores, duration, interval, stream, emitted,
                   reads, hdr, bg_i, drv_pc, now, elapsed, proc_start,
                   proc_end, perf_entry, wr, log, abort>>

bg_vars == <<stream, emitted, reads, bg_pc, hdr, line, bg_i, bg_end_early>>
config_vars == <<platform, cores, duration, interval>>

----------------------------------------------------------------------------
(* Foreground driver, main.rs 85-118, and the end of main, main.rs 148 *)

\* A panic of the main thread: the unwrap() named by reason failed.
Panic(reason) ==
    /\ drv_pc' = "aborted"
    /\ abort' = reason

\* DrvElapsed with the <log-entry> line written as soon as the elapsed time is
\* known, before the snapshots and the group are there.
DrvElapsedEager ==
    /\ drv_pc = "elapsed"
    /\ elapsed' = now
    /\ log' = Append(log, Chunk("entry-open", as_millis(now), <<>>))
    /\ drv_pc' = "proc_start"
    /\ UNCHANGED <<other_c, config_vars, bg_vars, chan, now, proc_start,
                   proc_end, perf_entry, wr, abort>>

\* let elapsed = start_time.elapsed();
DrvElapsed ==
    /\ drv_pc = "elapsed"
    /\ elapsed' = now
    /\ drv_pc' = "proc_start"
    /\ UNCHANGED <<other_c, config_vars, bg_vars, chan, now, proc_start, proc_end,
                   perf_entry, wr, log, abort>>

\* let proc_start = read_to_string("/proc/stat").unwrap();
DrvProcStart ==
    /\ drv_pc = "proc_start"
    /\ \/ /\ proc_start' = now
          /\ drv_pc' = "sleep"
          /\ abort' = abort
       \/ /\ Panic("proc")
          /\ proc_start' = proc_start
    /\ UNCHANGED <<other_c, config_vars, bg_vars, chan, now, elapsed, proc_end,
                   perf_entry, wr, log>>

\* sleep(interval);
DrvSleep ==
    /\ drv_pc = "sleep"
    /\ \E d \in Delays : now' = now + from_secs(interval) + d
    /\ drv_pc' = "recv"
    /\ UNCHANGED <<other_c, config_vars, bg_vars, chan, elapsed, proc_start, proc_end,
                   perf_entry, wr, log, abort>>

\* perf_rx.recv() finds the channel empty and the sender alive: it blocks,
\* and time passes.
DrvRecvBlock ==
    /\ drv_pc = "recv"
    /\ chan = <<>>
    /\ TxAlive
    /\ \E d \in Delays \ {0} : now' = now + d
    /\ drv_pc' = "recv_wait"
    /\ UNCHANGED <<other_c, config_vars, bg_vars, chan, elapsed, proc_start, proc_end,
                   perf_entry, wr, log, abort>>

\* let perf_entry = perf_rx.recv().unwrap();
\* recv returns the oldest queued group; Err only when the queue is empty
\* and the sender is gone.
DrvRecv ==
    /\ drv_pc \in {"recv", "recv_wait"}
    /\ \/ /\ chan # <<>>
          /\ perf_entry' = Head(chan)
          /\ chan' = Tail(chan)
          /\ drv_pc' = "proc_end"
          /\ abort' = abort
       \/ /\ chan = <<>>
          /\ ~TxAlive
          /\ Panic("recv")
          /\ UNCHANGED <<perf_entry, chan>>
    /\ UNCHANGED <<other_c, config_vars, bg_vars, now, elapsed, proc_start, proc_end,
                   wr, log>>

\* let proc_end = read_to_string("/proc/stat").unwrap();
DrvProcEnd ==
    /\ drv_pc = "proc_end"
    /\ \/ /\ proc_end' = now
          /\ drv_pc' = "write"
          /\ abort' = abort
       \/ /\ Panic("proc")
          /\ proc_end' = proc_end
    /\ UNCHANGED <<other_c, config_vars, bg_vars, chan, now, elapsed, proc_start,
                   perf_entry, wr, log>>

\* The five output.write(...) calls of one entry, in order.
EntryChunk(k) ==
    CASE k = 1 -> Chunk("entry-open", as_millis(elapsed), <<>>)
      [] k = 2 -> Chunk("proc-start", None, <<proc_start>>)
      [] k = 3 -> Chunk("proc-end", None, <<proc_end>>)
      [] k = 4 -> Chunk("perf", None, perf_entry)
      [] k = 5 -> Chunk("entry-close", None, <<>>)

\* output.write(...).unwrap();
DrvWrite ==
    /\ drv_pc = "write"
    /\ \/ /\ log' = Append(log, EntryChunk(wr + 1))
          /\ wr' = wr + 1
          /\ drv_pc' = IF wr + 1 = 5 THEN "check" ELSE "write"
          /\ abort' = abort
       \/ /\ Panic("write")
          /\ UNCHANGED <<log, wr>>
    /\ UNCHANGED <<other_c, config_vars, bg_vars, chan, now, elapsed, proc_start,
                   proc_end, perf_entry>>

\* StopCondition with > for >=.
StopConditionStrict(e, dur) == e > from_secs(dur)

\* if elapsed >= duration { break; }
StopCondition(e, dur) == e >= from_secs(dur)

\* Log entries whose <log-entry> line is in the file.
EntryTimes == SelectSeq(log, LAMBDA c : c.kind = "entry-open")

\* The stop test; on continuing, i += 1; print!(...); stdout().flush()
\* .unwrap(); and the locals of the iteration go out of scope.
DrvCheck ==
    /\ drv_pc = "check"
    /\ IF StopCondition(elapsed, duration)
       THEN /\ drv_pc' = "done"
            /\ UNCHANGED <<abort, elapsed, proc_start, proc_end, perf_entry,
                           wr>>
       ELSE /\ Len(EntryTimes) < MaxLogEntries
            /\ \/ /\ drv_pc' = "elapsed"
                  /\ abort' = abort
               \/ Panic("stdout")
            /\ elapsed' = None
            /\ proc_start' = None
            /\ proc_end' = None
            /\ perf_entry' = NoGroup
            /\ wr' = 0
    /\ UNCHANGED <<other_c, config_vars, bg_vars, chan, now, log>>

\* process returns; main: output.write(b"</log>\n").unwrap();
MainClose ==
    /\ drv_pc = "done"
    /\ \/ /\ log' = Append(log, Chunk("log-close", None, <<>>))
          /\ drv_pc' = "exited"
          /\ abort' = abort
       \/ /\ Panic("write")
          /\ log' = log
    /\ UNCHANGED <<other_c, config_vars, bg_vars, chan, now, elapsed, proc_start,
                   proc_end, perf_entry, wr>>

----------------------------------------------------------------------------
(* Analyzer, report.rs.  Strings that the code compares or orders are       *)
(* sequences of bytes: "0" is <<48>>, "10" is <<49, 48>>, "all" is          *)
(* <<97, 108, 108>>.  An f64 is an exact fraction [n, d] in lowest terms,   *)
(* with d = 0 for NaN (n = 0) and the infinities (n = 1, n = -1); rounding  *)
(* is not modelled.                                                         *)

KeyAll == <<97, 108, 108>>
KeySpace == <<32>>
Key0 == <<48>>
Key1 == <<49>>
Key2 == <<50>>
Key10 == <<49, 48>>
KeyC0 == <<83, 48, 45, 68, 48, 45, 67, 48>>
KeyC1 == <<83, 48, 45, 68, 48, 45, 67, 49>>

EmptyMap == [k \in {} |-> 0]

\* HashMap::insert
Put(m, k, v) == [x \in DOMAIN m \cup {k} |-> IF x = k THEN v ELSE m[x]]

Abs(x) == IF x < 0 THEN 0 - x ELSE x

RECURSIVE GCD(_, _)
GCD(a, b) == IF b = 0 THEN a ELSE GCD(b, a % b)

NaN == [n |-> 0, d |-> 0]

\* a as f64 / b as f64, and the value n/d in lowest terms
FFrac(a, b) ==
    IF b = 0
    THEN [n |-> IF a > 0 THEN 1 ELSE IF a < 0 THEN 0 - 1 ELSE 0, d |-> 0]
    ELSE LET g == GCD(Abs(a), Abs(b))
             sgn == IF b < 0 THEN 0 - 1 ELSE 1
         IN  [n |-> sgn * (a \div g), d |-> sgn * (b \div g)]

FInt(a) == [n |-> a, d |-> 1]

\* x + y on f64
FAdd(x, y) ==
    IF x.d = 0 \/ y.d = 0
    THEN IF x = NaN \/ y = NaN THEN NaN
         ELSE IF x.d = 0 /\ y.d = 0
              THEN (IF x.n = y.n THEN x ELSE NaN)
              ELSE (IF x.d = 0 THEN x ELSE y)
    ELSE FFrac(x.n * y.d + y.n * x.d, x.d * y.d)

\* x - y on f64
FSub(x, y) == FAdd(x, [n |-> 0 - y.n, d |-> y.d])

\* x * y on f64
FMul(x, y) ==
    IF x.d = 0 \/ y.d = 0
    THEN IF x = NaN \/ y = NaN \/ x.n = 0 \/ y.n = 0 THEN NaN
         ELSE [n |-> IF (x.n > 0) = (y.n > 0) THEN 1 ELSE 0 - 1, d |-> 0]
    ELSE FFrac(x.n * y.n, x.d * y.d)

\* x / (count as f64), count >= 0
FDivCount(x, count) ==
    IF x.d = 0 THEN x
    ELSE IF count = 0 THEN FFrac(x.n, 0)
    ELSE FFrac(x.n, x.d * count)

\* A line of kernel counter text: a row the regex of parse_proc matches (its
\* captures: the cpu id and the seven retained numbers) or any other line.
CpuLine(id, f) == [kind |-> "cpu", id |-> id, f |-> f]
OtherLine == [kind |-> "other", id |-> <<>>, f |-> <<>>]

\* One matching line of parse_proc: the captures are named user, system,
\* nice, idle, iowait, irq, softirq in column order.
ProcReportPoint(f) ==
    [user |-> f[1], system |-> f[2], nice |-> f[3], idle |-> f[4],
     iowait |-> f[5], irq |-> f[6], softirq |-> f[7],
     total |-> f[1] + f[2] + f[3] + f[4] + f[5] + f[6] + f[7]]

RECURSIVE ParseProcLines(_, _)
ParseProcLines(lines, proc) ==
    IF lines = <<>> THEN proc
    ELSE LET l == Head(lines)
         IN  IF l.kind = "cpu"
             THEN ParseProcLines(Tail(lines),
                      Put(proc,
                          IF l.id = KeySpace THEN KeyAll ELSE l.id,
                          ProcReportPoint(l.f)))
             ELSE ParseProcLines(Tail(lines), proc)

parse_proc(text) == ParseProcLines(text, EmptyMap)

\* Counters of the inputs never decrease, so the u64 subtractions neither
\* wrap nor panic.
analyze_proc(start, end) ==
    [user |-> end.user - start.user,
     nice |-> end.nice - start.nice,
     system |-> end.system - start.system,
     idle |-> end.idle - start.idle,
     iowait |-> end.iowait - start.iowait,
     irq |-> end.irq - start.irq,
     softirq |-> end.softirq - start.softirq,
     total |-> end.total - start.total,
     load |-> FMul(FInt(100),
                   FSub(FInt(1),
                        FFrac(end.idle - start.idle,
                              end.total - start.total)))]

\* A line of sampler text: one the platform's regex matches (its fields: the
\* cpu column, the value, the event name) or any other line.
PerfLine(cpu, value, event) ==
    [kind |-> "perf", cpu |-> cpu, value |-> value, event |-> event]
BannerLine == [kind |-> "other", cpu |-> <<>>, value |-> 0, event |-> ""]

\* The cpu capture: (.+?\-.+?\-.+?) on ubuntu takes the column as it is;
\* (\d)+ on android keeps the last digit of the column.
PerfCpuCapture(p, cpu) == IF p = "android" THEN <<cpu[Len(cpu)]>> ELSE cpu

CyclesEvent(p) == IF p = "android" THEN "cpu-cycles" ELSE "cycles"

ZeroPerf == [cycles |-> 0, context_switches |-> 0]

\* The first loop of parse_and_analyze_perf; ok is FALSE after
\* panic!("Unknown event").
RECURSIVE ParsePerfLines(_, _, _)
ParsePerfLines(p, lines, perf) ==
    IF lines = <<>> THEN [ok |-> TRUE, map |-> perf]
    ELSE LET l == Head(lines)
             cpu == PerfCpuCapture(p, l.cpu)
             old == IF cpu \in DOMAIN perf THEN perf[cpu] ELSE ZeroPerf
         IN  IF l.kind # "perf" THEN ParsePerfLines(p, Tail(lines), perf)
             ELSE IF l.event = CyclesEvent(p)
             THEN ParsePerfLines(p, Tail(lines),
                      Put(perf, cpu, [old EXCEPT !.cycles = l.value]))
             ELSE IF l.event = "context-switches"
             THEN ParsePerfLines(p, Tail(lines),
                      Put(perf, cpu,
                          [old EXCEPT !.context_switches = l.value]))
             ELSE [ok |-> FALSE, map |-> EmptyMap]

\* The second loop: every key collected before it is added into "all".
RECURSIVE SumInto(_, _, _)
SumInto(perf, keys, all) ==
    IF keys = {} THEN all
    ELSE LET cpu == CHOOSE k \in keys : TRUE
         IN  SumInto(perf, keys \ {cpu},
                 [cycles |-> all.cycles + perf[cpu].cycles,
                  context_switches |->
                      all.context_switches + perf[cpu].context_switches])

parse_and_analyze_perf(p, text) ==
    LET r == ParsePerfLines(p, text, EmptyMap)
    IN  IF ~r.ok \/ DOMAIN r.map = {} THEN r
        ELSE [ok |-> TRUE,
              map |-> Put(r.map, KeyAll,
                          SumInto(r.map, DOMAIN r.map, ZeroPerf))]

Front(v) == SubSeq(v, 1, Len(v) - 1)

\* format!("{}", n): the decimal digits of n as bytes
RECURSIVE Decimal(_)
Decimal(n) ==
    IF n < 10 THEN <<48 + n>> ELSE Append(Decimal(n \div 10), 48 + (n % 10))

\* str::parse::<u64>() of decimal digits
RECURSIVE ParseU64(_)
ParseU64(str) ==
    IF Len(str) = 1 THEN str[1] - 48
    ELSE ParseU64(Front(str)) * 10 + (Last(str) - 48)

\* String::cmp: bytewise lexicographic order
RECURSIVE cmp(_, _)
cmp(a, b) ==
    IF a = <<>> /\ b = <<>> THEN "Equal"
    ELSE IF a = <<>> THEN "Less"
    ELSE IF b = <<>> THEN "Greater"
    ELSE IF Head(a) < Head(b) THEN "Less"
    ELSE IF Head(a) > Head(b) THEN "Greater"
    ELSE cmp(Tail(a), Tail(b))

\* compare without the length rule: plain String order below "all".
compareLexOnly(a, b) ==
    IF a = KeyAll THEN "Greater"
    ELSE IF b = KeyAll THEN "Less"
    ELSE cmp(a, b)

\* The closure compare of get_report
compare(a, b) ==
    IF a = KeyAll THEN "Greater"
    ELSE IF b = KeyAll THEN "Less"
    ELSE IF Len(a) < Len(b) THEN "Less"
    ELSE IF Len(a) > Len(b) THEN "Greater"
    ELSE cmp(a, b)

\* slice::sort_by on a short slice is a stable insertion sort: the new
\* element moves left while it compares Less than its left neighbour.
RECURSIVE InsertTail(_, _)
InsertTail(v, x) ==
    IF v = <<>> \/ compare(x, Last(v)) # "Less" THEN Append(v, x)
    ELSE Append(InsertTail(Front(v), x), Last(v))

RECURSIVE sort_by(_)
sort_by(v) ==
    IF v = <<>> THEN <<>> ELSE InsertTail(sort_by(Front(v)), Last(v))

\* HashSet::into_iter().collect(): the elements once each, in any order.
Orders(set) ==
    {v \in [1..Cardinality(set) -> set] :
        \A i, j \in 1..Cardinality(set) : i # j => v[i] # v[j]}

\* proc of get_report, lenient: a cpu absent from proc_end is left out.
ProcDeltasLenient(start, end) ==
    [ok |-> TRUE,
     map |-> [cpu \in DOMAIN start \cap DOMAIN end |->
                 analyze_proc(start[cpu], end[cpu])]]

\* let proc = HashMap::from_iter(proc_start.keys().map(...)); ok is FALSE
\* after panic!("CPU {} not found in proc_end").
ProcDeltas(start, end) ==
    IF \E cpu \in DOMAIN start : cpu \notin DOMAIN end
    THEN [ok |-> FALSE, map |-> EmptyMap]
    ELSE [ok |-> TRUE,
          map |-> [cpu \in DOMAIN start |->
                      analyze_proc(start[cpu], end[cpu])]]

\* The for loop of get_report over log.entries.
RECURSIVE ReportEntries(_, _, _)
ReportEntries(p, entries, acc) ==
    IF entries = <<>> THEN acc
    ELSE LET e == Head(entries)
             proc == ProcDeltas(parse_proc(e.proc_start),
                                parse_proc(e.proc_end))
             perf == parse_and_analyze_perf(p, e.perf)
         IN  IF ~proc.ok \/ ~perf.ok
             THEN [ok |-> FALSE, entries |-> <<>>, proc_cpus |-> {},
                   perf_cpus |-> {}]
             ELSE ReportEntries(p, Tail(entries),
                      [ok |-> TRUE,
                       entries |-> Append(acc.entries,
                                     [time |-> from_secs(ParseU64(e.time)),
                                      proc |-> proc.map,
                                      perf |-> perf.map]),
                       proc_cpus |-> acc.proc_cpus \cup DOMAIN proc.map,
                       perf_cpus |-> acc.perf_cpus \cup DOMAIN perf.map])

NoEntries ==
    [ok |-> TRUE, entries |-> <<>>, proc_cpus |-> {}, perf_cpus |-> {}]

NoReport ==
    [duration |-> 0, interval |-> 0, entries |-> <<>>, proc_cpus |-> <<>>,
     perf_cpus |-> <<>>]

\* get_report: the Report, or a panic.  The two key lists are the results of
\* sort_by on every order the HashSets may be collected in.
GetReport ==
    /\ an_pc = "start"
    /\ LET r == ReportEntries(an_platform, xml.entries, NoEntries)
       IN  IF ~r.ok
           THEN /\ an_pc' = "panicked"
                /\ report' = report
           ELSE /\ an_pc' = "reported"
                /\ \E ps \in {sort_by(v) : v \in Orders(r.proc_cpus)},
                      qs \in {sort_by(v) : v \in Orders(r.perf_cpus)} :
                     report' = [duration |-> from_secs(ParseU64(xml.duration)),
                                interval |-> from_secs(ParseU64(xml.interval)),
                                entries |-> r.entries,
                                proc_cpus |-> ps,
                                perf_cpus |-> qs]
    /\ UNCHANGED <<other_a, an_platform, xml, avg_load, avg_cycles>>

\* get_average_proc_load with the count taken over all entries.
get_average_proc_load_all_entries(rep, cpu) ==
    LET RECURSIVE Loop(_, _)
        Loop(k, total) ==
            IF k > Len(rep.entries) THEN total
            ELSE IF cpu \in DOMAIN rep.entries[k].proc
                 THEN Loop(k + 1, FAdd(total, rep.entries[k].proc[cpu].load))
                 ELSE Loop(k + 1, total)
    IN  FDivCount(Loop(1, FInt(0)), Len(rep.entries))

RECURSIVE ProcLoadLoop(_, _, _, _)
ProcLoadLoop(entries, cpu, total, count) ==
    IF entries = <<>> THEN FDivCount(total, count)
    ELSE IF cpu \in DOMAIN Head(entries).proc
         THEN ProcLoadLoop(Tail(entries), cpu,
                           FAdd(total, Head(entries).proc[cpu].load),
                           count + 1)
         ELSE ProcLoadLoop(Tail(entries), cpu, total, count)

get_average_proc_load(rep, cpu) ==
    ProcLoadLoop(rep.entries, cpu, FInt(0), 0)

RECURSIVE CpuCyclesLoop(_, _, _, _)
CpuCyclesLoop(entries, cpu, total, count) ==
    IF entries = <<>> THEN FDivCount(total, count)
    ELSE IF cpu \in DOMAIN Head(entries).perf
         THEN CpuCyclesLoop(Tail(entries), cpu,
                            FAdd(total, FInt(Head(entries).perf[cpu].cycles)),
                            count + 1)
         ELSE CpuCyclesLoop(Tail(entries), cpu, total, count)

get_average_cpu_cycles(rep, cpu) ==
    CpuCyclesLoop(rep.entries, cpu, FInt(0), 0)

\* main of the analyzer after get_report: one average per listed key;
\* print_string_collection unwraps the longest cell, which an empty list
\* does not have.
PrintAverages ==
    /\ an_pc = "reported"
    /\ IF report.proc_cpus = <<>> \/ report.perf_cpus = <<>>
       THEN /\ an_pc' = "panicked"
            /\ UNCHANGED <<avg_load, avg_cycles>>
       ELSE /\ an_pc' = "averaged"
            /\ avg_load' = [cpu \in Range(report.proc_cpus) |->
                               get_average_proc_load(report, cpu)]
            /\ avg_cycles' = [cpu \in Range(report.perf_cpus) |->
                                 get_average_cpu_cycles(report, cpu)]
    /\ UNCHANGED <<other_a, an_platform, xml, report>>

----------------------------------------------------------------------------
(* Logs the analyzer is run on.  Kernel text: rows for "cpu " (the          *)
(* aggregate), cpu0 and, in some snapshots, cpu1, between lines that are    *)
(* no cpu rows.  Sampler text: the per-core rows of one report.             *)

PreA == <<OtherLine,
          CpuLine(KeySpace, <<20, 2, 4, 20, 0, 0, 0>>),
          CpuLine(Key0, <<10, 1, 2, 10, 0, 0, 0>>),
          CpuLine(Key1, <<10, 1, 2, 10, 0, 0, 0>>),
          OtherLine>>

PreB == <<CpuLine(KeySpace, <<20, 2, 4, 20, 0, 0, 0>>),
          CpuLine(Key0, <<10, 1, 2, 10, 0, 0, 0>>),
          OtherLine>>

\* after PreA: cpu0 load 10, cpu1 load 40
PostA == <<OtherLine,
           CpuLine(KeySpace, <<25, 2, 4, 35, 0, 0, 0>>),
           CpuLine(Key0, <<11, 1, 2, 19, 0, 0, 0>>),
           CpuLine(Key1, <<13, 1, 3, 16, 0, 0, 0>>),
           OtherLine>>

\* after PreA: cpu0 load 50, cpu1 load 60
PostB == <<CpuLine(KeySpace, <<29, 3, 5, 29, 1, 0, 0>>),
           CpuLine(Key0, <<14, 1, 2, 15, 1, 0, 0>>),
           CpuLine(Key1, <<15, 2, 2, 14, 0, 0, 0>>)>>

\* cpu1 is gone, cpu0 has not moved
PostC == <<CpuLine(KeySpace, <<25, 2, 4, 25, 0, 0, 0>>),
           CpuLine(Key0, <<10, 1, 2, 10, 0, 0, 0>>),
           OtherLine>>

PreTexts == {PreA, PreB}
PostTexts == {PostA, PostB, PostC}

PerfCpu0(p) == IF p = "android" THEN Key0 ELSE KeyC0
PerfCpu1(p) == IF p = "android" THEN Key1 ELSE KeyC1

PerfA(p) == <<BannerLine,
              PerfLine(PerfCpu0(p), 1000, CyclesEvent(p)),
              PerfLine(PerfCpu0(p), 50, "context-switches"),
              PerfLine(PerfCpu1(p), 3000, CyclesEvent(p)),
              PerfLine(PerfCpu1(p), 70, "context-switches")>>

PerfB(p) == <<PerfLine(PerfCpu0(p), 2000, CyclesEvent(p)),
              PerfLine(PerfCpu0(p), 10, "context-switches"),
              BannerLine>>

PerfUnknown(p) == <<PerfLine(PerfCpu0(p), 5, "instructions")>>

LogEntry(t, ps, pe, pf) ==
    [time |-> t, proc_start |-> ps, proc_end |-> pe, perf |-> pf]

\* The time attribute is what the collector writes for an elapsed time:
\* format!("{}", elapsed.as_millis()), here after 0 ms and after 1000.5 ms.
LogEntries(p) ==
    {LogEntry(Decimal(as_millis(tp[1])), ps, pe, tp[2]) :
        ps \in PreTexts, pe \in PostTexts,
        tp \in {<<0, PerfA(p)>>, <<from_secs(1) + 1, PerfB(p)>>}}
    \cup {LogEntry(Decimal(0), PreB, PostC, PerfUnknown(p))}

SeqsUpTo(S, n) == UNION {[1..k -> S] : k \in 0..n}

Logs(p) ==
    {[duration |-> Decimal(2), interval |-> Decimal(1), entries |-> es] :
        es \in SeqsUpTo(LogEntries(p), MaxXmlEntries)}

AnalyzerIdle ==
    /\ an_pc = "idle" /\ an_platform = "ubuntu"
    /\ xml = [duration |-> <<48>>, interval |-> <<48>>, entries |-> <<>>]
    /\ report = NoReport /\ avg_load = EmptyMap /\ avg_cycles = EmptyMap

SortIdle ==
    /\ ks_pc = "idle" /\ proc_set = {} /\ perf_set = {}
    /\ proc_vec = <<>> /\ perf_vec = <<>>

InitReport ==
    /\ CollectorIdle
    /\ SortIdle
    /\ an_pc = "start"
    /\ an_platform \in Platforms
    /\ xml \in Logs(an_platform)
    /\ report = NoReport
    /\ avg_load = EmptyMap
    /\ avg_cycles = EmptyMap

NextReport ==
    \/ GetReport
    \/ PrintAverages

SpecReport == InitReport /\ [][NextReport]_vars

----------------------------------------------------------------------------
(* The key lists of get_report on their own, report.rs 226-242: the two     *)
(* HashSets as the loop over the entries may leave them, collected in any   *)
(* order and sorted.                                                        *)

KernelKeys == {Key0, Key1, Key10, Key2, KeyAll}
PerfKeys == {Key0, Key1, KeyC0, KeyC1, KeyAll}

InitSort ==
    /\ CollectorIdle
    /\ AnalyzerIdle
    /\ ks_pc = "sets"
    /\ proc_set \in SUBSET KernelKeys
    /\ perf_set \in {ks \in SUBSET PerfKeys : ks = {} \/ KeyAll \in ks}
    /\ proc_vec = <<>>
    /\ perf_vec = <<>>

\* let mut perf_cpus: Vec<_> = perf_cpus.into_iter().collect();
\* let mut proc_cpus: Vec<_> = proc_cpus.into_iter().collect();
CollectKeys ==
    /\ ks_pc = "sets"
    /\ perf_vec' \in Orders(perf_set)
    /\ proc_vec' \in Orders(proc_set)
    /\ ks_pc' = "vecs"
    /\ UNCHANGED <<other_s, proc_set, perf_set>>

\* perf_cpus.sort_by(compare); proc_cpus.sort_by(compare);
SortKeys ==
    /\ ks_pc = "vecs"
    /\ perf_vec' = sort_by(perf_vec)
    /\ proc_vec' = sort_by(proc_vec)
    /\ ks_pc' = "sorted"
    /\ UNCHANGED <<other_s, proc_set, perf_set>>

NextSort ==
    \/ CollectKeys
    \/ SortKeys

SpecSort == InitSort /\ [][NextSort]_vars

----------------------------------------------------------------------------
(* Claims about the analyzer *)

Reported == an_pc \in {"reported", "averaged"}

\* The cpu keys of a kernel text: the id of each cpu row, "all" for the blank
\* one.
SnapshotKeys(text) ==
    {IF text[k].id = KeySpace THEN KeyAll ELSE text[k].id :
        k \in {j \in 1..Len(text) : text[j].kind = "cpu"}}

\* The time attribute of a log entry as a number of milliseconds.
RECURSIVE DecimalValue(_)
DecimalValue(str) ==
    IF str = <<>> THEN 0
    ELSE DecimalValue(SubSeq(str, 1, Len(str) - 1)) * 10 + (str[Len(str)] - 48)

\* C7: for every log entry written with time attribute t (milliseconds), the
\* Report Entry built from it has an elapsed time of t milliseconds.
C7_ElapsedRoundTrip ==
    Reported =>
        \A k \in 1..Len(xml.entries) :
            report.entries[k].time
                = DecimalValue(xml.entries[k].time) * TicksPerMilli

\* C8: if some cpu key of an entry's pre-sleep snapshot is not in its
\* post-sleep snapshot, get_report fails; when it succeeds, the kernel map of
\* every Report Entry has exactly the keys of the pre-sleep snapshot.
C8_MissingCpuIsFatal ==
    an_pc # "start" =>
        /\ (\E k \in 1..Len(xml.entries) :
               ~(SnapshotKeys(xml.entries[k].proc_start)
                    \subseteq SnapshotKeys(xml.entries[k].proc_end)))
             => an_pc = "panicked"
        /\ Reported =>
             /\ Len(report.entries) = Len(xml.entries)
             /\ \A k \in 1..Len(xml.entries) :
                  DOMAIN report.entries[k].proc
                      = SnapshotKeys(xml.entries[k].proc_start)

\* C8 witness: get_report has failed on a log whose second entry lost cpu1
\* between its snapshots, and whose other entries are sound.
C8_Witness ==
    /\ an_pc = "panicked"
    /\ Len(xml.entries) = 2
    /\ xml.entries[1].proc_start = PreA /\ xml.entries[1].proc_end = PostA
    /\ xml.entries[2].proc_start = PreA /\ xml.entries[2].proc_end = PostC
    /\ xml.entries[1].perf = PerfA(an_platform)
    /\ xml.entries[2].perf = PerfA(an_platform)

\* The sum of f over the set S of entry numbers.
RECURSIVE SumOver(_, _)
SumOver(S, f) ==
    IF S = {} THEN FInt(0)
    ELSE LET k == CHOOSE x \in S : TRUE
         IN  FAdd(f[k], SumOver(S \ {k}, f))

\* The mean over the entries that hold the key.
MeanLoad(rep, cpu) ==
    LET present == {k \in 1..Len(rep.entries) :
                       cpu \in DOMAIN rep.entries[k].proc}
        load == [k \in present |-> rep.entries[k].proc[cpu].load]
    IN  FDivCount(SumOver(present, load), Cardinality(present))

MeanCycles(rep, cpu) ==
    LET present == {k \in 1..Len(rep.entries) :
                       cpu \in DOMAIN rep.entries[k].perf}
        cycles == [k \in present |-> FInt(rep.entries[k].perf[cpu].cycles)]
    IN  FDivCount(SumOver(present, cycles), Cardinality(present))

\* C9: the average of a cpu key is the sum of its values divided by the
\* number of entries that contain the key, for the load and for the cycles,
\* for the keys main prints and for any other key.
C9_AverageOverPresentEntries ==
    /\ an_pc = "averaged" =>
         /\ \A cpu \in DOMAIN avg_load : avg_load[cpu] = MeanLoad(report, cpu)
         /\ \A cpu \in DOMAIN avg_cycles :
              avg_cycles[cpu] = MeanCycles(report, cpu)
    /\ Reported =>
         \A cpu \in KernelKeys \cup PerfKeys :
            /\ get_average_proc_load(report, cpu) = MeanLoad(report, cpu)
            /\ get_average_cpu_cycles(report, cpu) = MeanCycles(report, cpu)

\* C9 witness: three entries, cpu1 in two of them with loads 40 and 60, and
\* the average printed for it is 50.
C9_Witness ==
    /\ an_pc = "averaged"
    /\ Len(report.entries) = 3
    /\ Cardinality({k \in 1..3 : Key1 \in DOMAIN report.entries[k].proc}) = 2
    /\ {report.entries[k].proc[Key1].load :
           k \in {j \in 1..3 : Key1 \in DOMAIN report.entries[j].proc}}
         = {FInt(40), FInt(60)}
    /\ avg_load[Key1] = FInt(50)

\* The CPU key ordering rule: "all" last, then shorter before longer, then
\* byte order.  The byte order is spelt out on the first differing position.
ByteBefore(a, b) ==
    \E i \in 1..Len(a) :
        /\ i <= Len(b)
        /\ a[i] < b[i]
        /\ \A j \in 1..(i - 1) : a[j] = b[j]

KeyBefore(a, b) ==
    /\ a # KeyAll
    /\ \/ b = KeyAll
       \/ Len(a) < Len(b)
       \/ Len(a) = Len(b) /\ ByteBefore(a, b)

IsKeyList(v, set) ==
    /\ Range(v) = set
    /\ Len(v) = Cardinality(set)
    /\ \A i, j \in 1..Len(v) : i < j => KeyBefore(v[i], v[j])

\* C10: each key list holds every key of its set once and is sorted by the
\* ordering rule, whatever the order the keys came in; {"0", "1", "10", "2",
\* "all"} yields ["0", "1", "2", "10", "all"].
C10_KeyListsSorted ==
    ks_pc = "sorted" =>
        /\ IsKeyList(proc_vec, proc_set)
        /\ IsKeyList(perf_vec, perf_set)
        /\ proc_set = KernelKeys
             => proc_vec = <<Key0, Key1, Key2, Key10, KeyAll>>

\* C10 witness: the five kernel keys and four sampler keys have been sorted.
C10_Witness ==
    /\ ks_pc = "sorted"
    /\ proc_set = KernelKeys
    /\ proc_vec = <<Key0, Key1, Key2, Key10, KeyAll>>
    /\ perf_vec = <<Key0, KeyC0, KeyC1, KeyAll>>

----------------------------------------------------------------------------
(* The collector run *)

Init ==
    /\ CollectorInit
    /\ AnalyzerIdle
    /\ SortIdle

Next ==
    \/ BgHeader
    \/ BgStart
    \/ BgRead
    \/ BgSend
    \/ DrvElapsed
    \/ DrvProcStart
    \/ DrvSleep
    \/ DrvRecvBlock
    \/ DrvRecv
    \/ DrvProcEnd
    \/ DrvWrite
    \/ DrvCheck
    \/ MainClose

Spec == Init /\ [][Next]_vars

----------------------------------------------------------------------------
(* Claims about the collector, checked under Spec *)

LogClosed == Last(log).kind = "log-close"

\* A group as the sampler emits one: GroupSize lines, all read after the
\* header lines.
IsSamplerGroup(g) ==
    /\ Len(g) = GroupSize(platform, cores)
    /\ \A k \in 1..Len(g) :
         g[k] > PERF_HEADER_LINES(platform) /\ g[k] <= emitted

\* C1: the handoff is single-slot: at most one flushed group waits
\* unconsumed at any time, the reader cannot flush a further one before the
\* driver has received the previous one.
C1_SingleSlotHandoff == Len(chan) <= 1

\* C2: in every iteration the post-sleep snapshot is taken before the driver
\* starts its blocking receive: whenever the driver is at (or blocked in) the
\* receive, the post-snapshot of the iteration has been read.
C2_PostSnapshotBeforeReceive ==
    drv_pc \in {"recv", "recv_wait"} => proc_end # None

\* C3: every group forwarded to the driver, waiting or received, consists of
\* exactly cores * 2 + extra lines the sampler emitted after the header; no
\* empty or short group is handed off once the stream has ended.
C3_OnlyFullGroupsForwarded ==
    \A g \in Range(chan) \cup ({perf_entry} \ {NoGroup}) : IsSamplerGroup(g)

\* C4: a reader that ends (read error or panic) while the driver still has a
\* receive ahead of it is fatal to the run: </log> is never written.
C4_ReaderDeathIsFatal == bg_end_early => ~LogClosed

\* C5: no part of an entry is in the log before the elapsed time, both
\* snapshots and the group of the interval are obtained; after a failed
\* /proc/stat read or a failed receive the log ends on a complete entry or
\* on the header.
C5_NoPartialEntries ==
    /\ Last(log).kind \in {"entry-open", "proc-start", "proc-end", "perf"}
         => /\ elapsed # None
            /\ proc_start # None
            /\ proc_end # None
            /\ perf_entry # NoGroup
    /\ (drv_pc = "aborted" /\ abort \in {"proc", "recv"})
         => Last(log).kind \in {"log-open", "entry-close"}

\* C5 witness: a receive failed after an entry had been written.
C5_Witness ==
    /\ drv_pc = "aborted"
    /\ abort = "recv"
    /\ Len(EntryTimes) >= 1
    /\ Last(log).kind = "entry-close"

\* C6: every emitted entry but the last has a recorded time below the
\* duration, the last entry of a finished run has a recorded time at or above
\* it (so none follows it), and with duration 0 exactly one entry is emitted.
C6_StopsAtFirstIntervalPastDuration ==
    LET t == EntryTimes
        n == Len(t)
    IN  /\ \A k \in 1..(n - 1) : t[k].time < duration * MillisPerSec
        /\ drv_pc \in {"done", "exited"}
             => /\ n >= 1
                /\ t[n].time >= duration * MillisPerSec
        /\ (duration = 0 /\ drv_pc \in {"done", "exited"}) => n = 1

\* C6 witness: a finished run of several entries, the last one recorded
\* exactly at the duration.
C6_Witness ==
    /\ drv_pc = "exited"
    /\ duration > 0
    /\ Len(EntryTimes) >= 2
    /\ Last(EntryTimes).time = duration * MillisPerSec

====
